---- MODULE Spec2Model ----
(***************************************************************************)
(* Model of scripts/train.py: the PrisML training pipeline.                *)
(* main() parses the command line, loads the JSON payload, trains and      *)
(* evaluates a scikit-learn estimator behind a quality gate, and exports   *)
(* the model plus a sidecar metadata file.                                 *)
(*                                                                         *)
(* Scales: floats are held in hundredths (0.7 is 70); a float may be NaN.  *)
(* Paths are sequences of one-character strings.                           *)
(***************************************************************************)
EXTENDS Integers, Sequences, FiniteSets, TLC

VARIABLES
    pc,            \* position of main(): Args, Start, Loaded, ..., Done, Failed
    exitStatus,    \* process exit status, -1 while the process runs
    args,          \* argparse namespace
    payload,       \* content of the --input file as read by json.load
    X,             \* shape of the feature matrix returned by the loader
    y,             \* length of the label vector returned by the loader
    metadata,      \* metadata mapping returned by the loader
    task_type,     \* main: metadata.get('task_type', 'classification')
    feature_names, \* main: metadata.get('feature_names', [f0..])
    partition,     \* train/test index sets produced by train_test_split
    model,         \* the estimator: kind, number of fits, rows it was fit on
    evalOn,        \* rows model.predict was given
    metrics,       \* metrics record of train_and_evaluate
    files,         \* files written by this run: path -> content
    calls,         \* how often each stage / library call was entered
    export_metadata, \* main: the mapping handed to export_to_onnx
    onnx_model,    \* export_to_onnx: the converted graph
    failedAt,      \* the call that raised the exception main caught
    diagnostic     \* the message of that exception

vars == <<pc, exitStatus, args, payload, X, y, metadata, task_type,
          feature_names, partition, model, evalOn, metrics, files, calls,
          export_metadata, onnx_model, failedAt, diagnostic>>

----------------------------------------------------------------------------
(* Bounds of the model *)

MaxRows == 3
MaxCols == 2

----------------------------------------------------------------------------
(* Floats *)

Float(v) == [nan |-> FALSE, v |-> v]
NaN == [nan |-> TRUE, v |-> 0]

\* Python's a < b on floats: any comparison with NaN is False.
FloatLt(a, b) == ~a.nan /\ ~b.nan /\ a.v < b.v

----------------------------------------------------------------------------
(* Mappings (Python dicts) as functions over a finite set of string keys *)

EmptyMap == [k \in {} |-> ""]

\* dict.get(key, default)
Get(d, key, default) == IF key \in DOMAIN d THEN d[key] ELSE default

\* {**a, **b}: the keys of b override those of a
Merge(a, b) ==
    [k \in DOMAIN a \cup DOMAIN b |-> IF k \in DOMAIN b THEN b[k] ELSE a[k]]

----------------------------------------------------------------------------
(* Strings *)

\* str.replace(old, new): every non-overlapping occurrence, left to right
RECURSIVE Replace(_, _, _)
Replace(s, old, new) ==
    IF Len(s) < Len(old) THEN s
    ELSE IF SubSeq(s, 1, Len(old)) = old
         THEN new \o Replace(SubSeq(s, Len(old) + 1, Len(s)), old, new)
         ELSE <<Head(s)>> \o Replace(Tail(s), old, new)

OnnxExt == <<".", "o", "n", "n", "x">>
MetadataExt == <<".", "m", "e", "t", "a", "d", "a", "t", "a",
                 ".", "j", "s", "o", "n">>

MetadataPath(output_path) == Replace(output_path, OnnxExt, MetadataExt)

----------------------------------------------------------------------------
(* The inputs of a run *)

Algorithms == {"RandomForest", "LogisticRegression", "DecisionTree",
               "GradientBoost"}

\* --output values: m.onnx, m.bin, a.onnx.onnx
OutputPaths == { <<"m">> \o OnnxExt,
                 <<"m", ".", "b", "i", "n">>,
                 <<"a">> \o OnnxExt \o OnnxExt }

TestSplits == {20, 50}
MinAccuracies == {Float(70), Float(100)}

\* what the estimator's predictions can score on the held-out rows
R2Values == {Float(50), Float(70), NaN}
MseValues == {Float(0), Float(25)}

\* the argparse namespace before parsing: the declared defaults
DefaultArgs == [output |-> <<>>, algorithm |-> "RandomForest",
                test_split |-> 20, min_accuracy |-> Float(70)]

ArgsSet == [output : OutputPaths, algorithm : Algorithms,
            test_split : TestSplits, min_accuracy : MinAccuracies]

Name(i) == <<"name", i>>
NameLists == { [i \in 1..k |-> Name(i)] : k \in 1..MaxCols }

\* the optional keys of the input metadata, each with the values it may hold
MetaValues(k) ==
    IF k = "task_type" THEN {"classification", "regression"}
    ELSE IF k = "feature_names" THEN NameLists
    ELSE {"legacy"}      \* an 'algorithm' entry already present in the input
MetaKeys == {"task_type", "feature_names", "algorithm"}

\* for one key: the key left out, or the key with one of its values
Entries(k) == {EmptyMap} \cup { [j \in {k} |-> v] : v \in MetaValues(k) }

MetadataMaps ==
    { Merge(Merge(a, b), c) : a \in Entries("task_type"),
                              b \in Entries("feature_names"),
                              c \in Entries("algorithm") }

\* the 'metadata' entry of the payload: absent, a mapping, or another JSON value
MetadataEntries ==
    {[present |-> FALSE, mapping |-> FALSE, map |-> EmptyMap]}
    \cup {[present |-> TRUE, mapping |-> FALSE, map |-> EmptyMap]}
    \cup {[present |-> TRUE, mapping |-> TRUE, map |-> m] : m \in MetadataMaps}

\* 'features' as the sequence of its row lengths, 'labels' as its length
FeatureRows == UNION { [1..n -> 1..MaxCols] : n \in 0..MaxRows }

Unparseable == [parseable |-> FALSE, features |-> <<>>, labels |-> 0,
                metadata |-> [present |-> FALSE, mapping |-> FALSE,
                              map |-> EmptyMap]]

Payloads ==
    {Unparseable} \cup
    [parseable : {TRUE}, features : FeatureRows, labels : 0..MaxRows,
     metadata : MetadataEntries]

NoPayload == Unparseable

----------------------------------------------------------------------------
(* State after construction *)

NoModel == [estimator |-> "none", fits |-> 0, fitOn |-> {}]
NoPartition == [done |-> FALSE, train |-> {}, test |-> {}]
NoCalls == [load_training_data |-> 0, train_and_evaluate |-> 0,
            train_test_split |-> 0, create_model |-> 0, fit |-> 0,
            predict |-> 0, export_to_onnx |-> 0]

NoGraph == [converted |-> FALSE, width |-> 0, zipmap |-> TRUE]
NoMessage == [text |-> "none"]

Init ==
    /\ pc = "Args"
    /\ exitStatus = -1
    /\ args = DefaultArgs
    /\ payload = NoPayload
    /\ X = <<>>
    /\ y = 0
    /\ metadata = EmptyMap
    /\ task_type = "classification"
    /\ feature_names = <<>>
    /\ partition = NoPartition
    /\ model = NoModel
    /\ evalOn = {}
    /\ metrics = EmptyMap
    /\ files = EmptyMap
    /\ calls = NoCalls
    /\ export_metadata = EmptyMap
    /\ onnx_model = NoGraph
    /\ failedAt = "none"
    /\ diagnostic = NoMessage

Called(f) == [calls EXCEPT ![f] = @ + 1]

\* variant of Fail: the handler reports the error but exits with status 0
FailExitZero(where, message) ==
    /\ pc' = "Failed"
    /\ exitStatus' = 0
    /\ failedAt' = where
    /\ diagnostic' = message

\* main's except clause: report and sys.exit(1)
Fail(where, message) ==
    /\ pc' = "Failed"
    /\ exitStatus' = 1
    /\ failedAt' = where
    /\ diagnostic' = message

\* an exception raised inside a library call or by the operating system
LibraryError == [text |-> "library error"]

----------------------------------------------------------------------------
(* main: parser.parse_args() *)

\* argparse ends the process itself on a bad command line (status 2) and on
\* --help (status 0); otherwise main goes on with the parsed namespace.
ParseArgs ==
    /\ pc = "Args"
    /\ \/ \E a \in ArgsSet :
            /\ args' = a
            /\ pc' = "Start"
            /\ exitStatus' = exitStatus
       \/ /\ pc' = "ArgExit"
          /\ exitStatus' \in {0, 2}
          /\ args' = args
    /\ UNCHANGED <<payload, X, y, metadata, task_type, feature_names,
                   partition, model, evalOn, metrics, files, calls,
                   export_metadata, onnx_model, failedAt, diagnostic>>

----------------------------------------------------------------------------
(* load_training_data *)

Ragged(rows) == \E i, j \in DOMAIN rows : rows[i] # rows[j]

\* np.array(features, dtype=np.float32): rows of unequal length are rejected;
\* an empty list gives a one-dimensional array
NpArray(rows) ==
    IF Ragged(rows) THEN [ok |-> FALSE, shape |-> <<>>]
    ELSE IF Len(rows) = 0 THEN [ok |-> TRUE, shape |-> <<0>>]
    ELSE [ok |-> TRUE, shape |-> <<Len(rows), rows[1]>>]

\* Whether load_training_data returns on this payload.  It raises when the
\* file does not parse, when np.array rejects the features, when X.shape[1]
\* does not exist, and when metadata has no .get; labels are not compared
\* with the features.
LoadOk(p) ==
    /\ p.parseable
    /\ NpArray(p.features).ok
    /\ Len(NpArray(p.features).shape) >= 2
    /\ (p.metadata.present => p.metadata.mapping)

\* f0 .. f(n-1)
DefaultNames(n) == [i \in 1..n |-> <<"f", i - 1>>]

LoadTrainingData ==
    /\ pc = "Start"
    /\ calls' = Called("load_training_data")
    /\ \E p \in Payloads :
        /\ payload' = p
        /\ IF LoadOk(p)
           THEN /\ X' = NpArray(p.features).shape
                /\ y' = p.labels
                /\ metadata' = p.metadata.map
                /\ task_type' = Get(p.metadata.map, "task_type", "classification")
                /\ feature_names' = Get(p.metadata.map, "feature_names",
                                        DefaultNames(NpArray(p.features).shape[2]))
                /\ pc' = "Loaded"
                /\ UNCHANGED <<exitStatus, failedAt, diagnostic>>
           ELSE /\ Fail("load_training_data", LibraryError)
                /\ UNCHANGED <<X, y, metadata, task_type, feature_names>>
    /\ UNCHANGED <<args, partition, model, evalOn, metrics, files,
                   export_metadata, onnx_model>>

----------------------------------------------------------------------------
(* create_model *)

\* the two lookup tables, in the order their keys are written
RegressionModels ==
    << <<"RandomForest", "RandomForestRegressor">>,
       <<"DecisionTree", "DecisionTreeClassifier">> >>
ClassificationModels ==
    << <<"RandomForest", "RandomForestClassifier">>,
       <<"LogisticRegression", "LogisticRegression">>,
       <<"DecisionTree", "DecisionTreeClassifier">> >>

\* list(models.keys())
Keys(models) == [i \in DOMAIN models |-> models[i][1]]

Lookup(models, key) ==
    models[CHOOSE i \in DOMAIN models : models[i][1] = key][2]

\* variant of create_model: an unknown name silently falls back to the
\* parser's default algorithm
create_model_default(algorithm, task) ==
    LET models == IF task = "regression" THEN RegressionModels
                  ELSE ClassificationModels
    IN  IF \A i \in DOMAIN models : models[i][1] # algorithm
        THEN [ok |-> TRUE, estimator |-> Lookup(models, "RandomForest"),
              error |-> NoMessage]
        ELSE [ok |-> TRUE, estimator |-> Lookup(models, algorithm),
              error |-> NoMessage]

\* variant of create_model: one table, the classification one, for both
\* task types
create_model_one_table(algorithm, task) ==
    LET models == ClassificationModels
    IN  IF \A i \in DOMAIN models : models[i][1] # algorithm
        THEN [ok |-> FALSE, estimator |-> "none",
              error |-> [text |-> "Unsupported algorithm",
                         algorithm |-> algorithm, choices |-> Keys(models)]]
        ELSE [ok |-> TRUE, estimator |-> Lookup(models, algorithm),
              error |-> NoMessage]

\* the estimator for (algorithm, task_type), or the ValueError naming the
\* keys of the table that was consulted
create_model(algorithm, task) ==
    LET models == IF task = "regression" THEN RegressionModels
                  ELSE ClassificationModels
    IN  IF \A i \in DOMAIN models : models[i][1] # algorithm
        THEN [ok |-> FALSE, estimator |-> "none",
              error |-> [text |-> "Unsupported algorithm",
                         algorithm |-> algorithm, choices |-> Keys(models)]]
        ELSE [ok |-> TRUE, estimator |-> Lookup(models, algorithm),
              error |-> NoMessage]

----------------------------------------------------------------------------
(* train_and_evaluate *)

\* train_test_split(X, y, test_size=test_split, random_state=42): the number
\* of held-out rows is ceil(test_size * n); it raises when X and y differ in
\* length and when no row is left to train on
NTest(n, test_split) == (test_split * n + 99) \div 100

\* variant of SplitOk: the lengths of X and y are not compared
SplitOkNoLengthCheck(shape, labels, test_split) ==
    shape[1] - NTest(shape[1], test_split) > 0

SplitOk(shape, labels, test_split) ==
    /\ shape[1] = labels
    /\ shape[1] - NTest(shape[1], test_split) > 0

\* lines 93-95: the first statement of train_and_evaluate
TrainTestSplit ==
    /\ pc = "Loaded"
    /\ calls' = [calls EXCEPT !["train_and_evaluate"] = @ + 1,
                              !["train_test_split"] = @ + 1]
    /\ IF SplitOk(X, y, args.test_split)
       THEN /\ \E test \in SUBSET (1..X[1]) :
                 /\ Cardinality(test) = NTest(X[1], args.test_split)
                 /\ partition' = [done |-> TRUE, train |-> (1..X[1]) \ test,
                                  test |-> test]
            /\ pc' = "Split"
            /\ UNCHANGED <<exitStatus, failedAt, diagnostic>>
       ELSE /\ Fail("train_test_split", LibraryError)
            /\ UNCHANGED partition
    /\ UNCHANGED <<args, payload, X, y, metadata, task_type, feature_names,
                   model, evalOn, metrics, files, export_metadata, onnx_model>>

\* line 100
CreateModel ==
    /\ pc = "Split"
    /\ calls' = Called("create_model")
    /\ LET r == create_model(args.algorithm, task_type)
       IN  IF r.ok
           THEN /\ model' = [estimator |-> r.estimator, fits |-> 0, fitOn |-> {}]
                /\ pc' = "Created"
                /\ UNCHANGED <<exitStatus, failedAt, diagnostic>>
           ELSE /\ Fail("create_model", r.error)
                /\ UNCHANGED model
    /\ UNCHANGED <<args, payload, X, y, metadata, task_type, feature_names,
                   partition, evalOn, metrics, files, export_metadata,
                   onnx_model>>

\* variant of FitRows: the model is fit on all rows
FitAllRows(part) == part.train \cup part.test

\* the rows handed to model.fit
FitRows(part) == part.train

\* line 103: the estimator may reject the data (labels it cannot handle,
\* a single class, ...)
Fit ==
    /\ pc = "Created"
    /\ calls' = Called("fit")
    /\ \/ /\ model' = [model EXCEPT !.fits = @ + 1, !.fitOn = FitRows(partition)]
          /\ pc' = "Fitted"
          /\ UNCHANGED <<exitStatus, failedAt, diagnostic>>
       \/ /\ Fail("fit", LibraryError)
          /\ UNCHANGED model
    /\ UNCHANGED <<args, payload, X, y, metadata, task_type, feature_names,
                   partition, evalOn, metrics, files, export_metadata,
                   onnx_model>>

\* the rows handed to model.predict and scored
TestRows(part) == part.test

\* accuracy_score: the fraction of held-out rows predicted exactly
Accuracy(correct, n) == Float((100 * correct) \div n)

\* the metrics records train_and_evaluate can build for a task type
MetricsFor(task, n_test) ==
    IF task = "regression"
    THEN [mse : MseValues, r2 : R2Values]
    ELSE { [accuracy |-> Accuracy(k, n_test)] : k \in 0..n_test }

\* lines 106-112 and 119-120: predict on the held-out rows, build metrics;
\* predict or a metric function may raise
Evaluate ==
    /\ pc = "Fitted"
    /\ calls' = Called("predict")
    /\ evalOn' = TestRows(partition)
    /\ \/ /\ metrics' \in MetricsFor(task_type,
                                      Cardinality(TestRows(partition)))
          /\ pc' = "Evaluated"
          /\ UNCHANGED <<exitStatus, failedAt, diagnostic>>
       \/ /\ Fail("predict", LibraryError)
          /\ UNCHANGED metrics
    /\ UNCHANGED <<args, payload, X, y, metadata, task_type, feature_names,
                   partition, model, files, export_metadata, onnx_model>>

\* variant of GateFails: only the classification branch raises
GateFailsClassificationOnly(task, m, min_accuracy) ==
    task # "regression" /\ FloatLt(m["accuracy"], min_accuracy)

\* the condition of the two raise statements (lines 116 and 123)
GateFails(task, m, min_accuracy) ==
    IF task = "regression" THEN FloatLt(m["r2"], min_accuracy)
    ELSE FloatLt(m["accuracy"], min_accuracy)

GateMessage(task, m, min_accuracy) ==
    [text |-> "Training failed",
     measured |-> IF task = "regression" THEN m["r2"] ELSE m["accuracy"],
     threshold |-> min_accuracy]

\* lines 116-117, 123-124 and 126
Gate ==
    /\ pc = "Evaluated"
    /\ IF GateFails(task_type, metrics, args.min_accuracy)
       THEN Fail("gate", GateMessage(task_type, metrics, args.min_accuracy))
       ELSE /\ pc' = "Trained"
            /\ UNCHANGED <<exitStatus, failedAt, diagnostic>>
    /\ UNCHANGED <<args, payload, X, y, metadata, task_type, feature_names,
                   partition, model, evalOn, metrics, files, calls,
                   export_metadata, onnx_model>>

----------------------------------------------------------------------------
(* main, step 3, and export_to_onnx *)

\* variant of ExportMetadata: the merge is written the other way round, so
\* the entries of the input win
ExportMetadataInputWins(meta, algorithm, m) ==
    Merge([algorithm |-> algorithm, metrics |-> m, trained_at |-> "null"], meta)

\* lines 207-212: {**metadata, 'algorithm': ..., 'metrics': ..., 'trained_at': None}
ExportMetadata(meta, algorithm, m) ==
    Merge(meta, [algorithm |-> algorithm, metrics |-> m, trained_at |-> "null"])

\* line 142: FloatTensorType([None, num_features])
InputWidth(names) == Len(names)

\* lines 146-148: zipmap is switched off for classification only
ZipMap(task) == task # "classification"

\* file contents
OnnxFile(graph, complete) ==
    [kind |-> "onnx", complete |-> complete, width |-> graph.width,
     data |-> EmptyMap]
JsonFile(meta, complete) ==
    [kind |-> "json", complete |-> complete, width |-> 0, data |-> meta]

\* open(path, mode 'w') followed by a write: the file at path becomes content
WriteFile(fs, path, content) ==
    [q \in DOMAIN fs \cup {path} |-> IF q = path THEN content ELSE fs[q]]

\* variant of Convert: the output file is opened before the conversion, so a
\* rejected estimator leaves an empty model file behind
ConvertIntoOpenFile ==
    /\ pc = "Trained"
    /\ calls' = Called("export_to_onnx")
    /\ export_metadata' = ExportMetadata(metadata, args.algorithm, metrics)
    /\ \/ /\ onnx_model' = [converted |-> TRUE,
                            width |-> InputWidth(feature_names),
                            zipmap |-> ZipMap(task_type)]
          /\ pc' = "Converted"
          /\ UNCHANGED <<exitStatus, failedAt, diagnostic, files>>
       \/ /\ Fail("convert_sklearn", LibraryError)
          /\ files' = WriteFile(files, args.output, OnnxFile(NoGraph, FALSE))
          /\ UNCHANGED onnx_model
    /\ UNCHANGED <<args, payload, X, y, metadata, task_type, feature_names,
                   partition, model, evalOn, metrics>>

\* lines 207-214 and 139-156: build the export metadata, call export_to_onnx,
\* convert the estimator; convert_sklearn may reject it
Convert ==
    /\ pc = "Trained"
    /\ calls' = Called("export_to_onnx")
    /\ export_metadata' = ExportMetadata(metadata, args.algorithm, metrics)
    /\ \/ /\ onnx_model' = [converted |-> TRUE,
                            width |-> InputWidth(feature_names),
                            zipmap |-> ZipMap(task_type)]
          /\ pc' = "Converted"
          /\ UNCHANGED <<exitStatus, failedAt, diagnostic>>
       \/ /\ Fail("convert_sklearn", LibraryError)
          /\ UNCHANGED onnx_model
    /\ UNCHANGED <<args, payload, X, y, metadata, task_type, feature_names,
                   partition, model, evalOn, metrics, files>>

\* lines 159-160: open() may fail and leave nothing; once the file is open a
\* failing write leaves an incomplete file behind
WriteModel ==
    /\ pc = "Converted"
    /\ \/ /\ files' = WriteFile(files, args.output, OnnxFile(onnx_model, TRUE))
          /\ pc' = "ModelWritten"
          /\ UNCHANGED <<exitStatus, failedAt, diagnostic>>
       \/ /\ Fail("open_model", LibraryError)
          /\ UNCHANGED files
       \/ /\ Fail("write_model", LibraryError)
          /\ files' = WriteFile(files, args.output, OnnxFile(onnx_model, FALSE))
    /\ UNCHANGED <<args, payload, X, y, metadata, task_type, feature_names,
                   partition, model, evalOn, metrics, calls, export_metadata,
                   onnx_model>>

\* lines 165-167
WriteMetadata ==
    /\ pc = "ModelWritten"
    /\ LET metadata_path == MetadataPath(args.output)
       IN  \/ /\ files' = WriteFile(files, metadata_path,
                                    JsonFile(export_metadata, TRUE))
              /\ pc' = "Exported"
              /\ UNCHANGED <<exitStatus, failedAt, diagnostic>>
           \/ /\ Fail("open_metadata", LibraryError)
              /\ UNCHANGED files
           \/ /\ Fail("write_metadata", LibraryError)
              /\ files' = WriteFile(files, metadata_path,
                                    JsonFile(export_metadata, FALSE))
    /\ UNCHANGED <<args, payload, X, y, metadata, task_type, feature_names,
                   partition, model, evalOn, metrics, calls, export_metadata,
                   onnx_model>>

\* line 220: sys.exit(0)
ExitSuccess ==
    /\ pc = "Exported"
    /\ pc' = "Done"
    /\ exitStatus' = 0
    /\ UNCHANGED <<args, payload, X, y, metadata, task_type, feature_names,
                   partition, model, evalOn, metrics, files, calls,
                   export_metadata, onnx_model, failedAt, diagnostic>>

----------------------------------------------------------------------------

Next ==
    \/ ParseArgs
    \/ LoadTrainingData
    \/ TrainTestSplit
    \/ CreateModel
    \/ Fit
    \/ Evaluate
    \/ Gate
    \/ Convert
    \/ WriteModel
    \/ WriteMetadata
    \/ ExitSuccess

Spec == Init /\ [][Next]_vars

----------------------------------------------------------------------------
(* Vocabulary of the properties *)

Parsed == pc \notin {"Args", "ArgExit"}
PayloadRead == calls["load_training_data"] = 1

\* the algorithms the documentation lists for a task type
SupportedSet(task) ==
    IF task = "regression" THEN {"RandomForest", "DecisionTree"}
    ELSE {"RandomForest", "LogisticRegression", "DecisionTree"}

Unsupported == Parsed /\ args.algorithm \notin SupportedSet(task_type)

MetricsComputed == metrics # EmptyMap

\* the one metric the gate is about: accuracy, or R2 for regression
GatedMetric == IF task_type = "regression" THEN metrics["r2"]
               ELSE metrics["accuracy"]

\* the held-out metric is strictly below --min-accuracy
MetricBelow ==
    /\ MetricsComputed
    /\ ~GatedMetric.nan
    /\ ~args.min_accuracy.nan
    /\ GatedMetric.v < args.min_accuracy.v

\* train_and_evaluate has returned or raised at the gate
GateDecided ==
    \/ pc \in {"Trained", "Converted", "ModelWritten", "Exported", "Done"}
    \/ pc = "Failed" /\ failedAt \in {"gate", "convert_sklearn", "open_model",
                                      "write_model", "open_metadata",
                                      "write_metadata"}
GatePassed == GateDecided /\ failedAt # "gate"

ModelFilePresent == args.output \in DOMAIN files
SidecarPath == MetadataPath(args.output)

----------------------------------------------------------------------------
(* C1 *)

\* C1: whenever the held-out metric (accuracy, or R2 for regression) is
\* strictly below the threshold, export_to_onnx is never invoked, no file is
\* written, and once the gate has been evaluated the run is Failed with exit
\* status 1.
C1_GateEnforcement ==
    MetricBelow =>
        /\ calls["export_to_onnx"] = 0
        /\ files = EmptyMap
        /\ pc \in {"Evaluated", "Failed"}
        /\ (pc = "Failed" => exitStatus = 1 /\ failedAt = "gate")

C1_Witness ==
    /\ MetricBelow
    /\ pc = "Failed"
    /\ task_type = "regression"
    /\ diagnostic = [text |-> "Training failed", measured |-> Float(50),
                     threshold |-> Float(70)]

----------------------------------------------------------------------------
(* C2 *)

\* C2 as stated: a run whose algorithm is not supported for its task type
\* fails with exit status 1 without any train/test split and without any fit.
C2_NoSplitBeforeUnsupported ==
    (Unsupported /\ pc = "Failed") =>
        /\ exitStatus = 1
        /\ calls["train_test_split"] = 0
        /\ ~partition.done
        /\ calls["fit"] = 0

\* C2 amended: a run whose algorithm is not supported for its task type never
\* fits a model and, when it ends, is Failed with exit status 1; the
\* unsupported-algorithm error is raised by create_model after
\* train_test_split has already partitioned the data.
C2_UnsupportedFailsBeforeFit ==
    Unsupported =>
        /\ calls["fit"] = 0
        /\ model = NoModel
        /\ pc \in {"Start", "Loaded", "Split", "Failed"}
        /\ (pc = "Failed" => exitStatus = 1)
        /\ (failedAt = "create_model" =>
                partition.done /\ calls["train_test_split"] = 1)

C2_Witness ==
    /\ Unsupported
    /\ args.algorithm = "GradientBoost"
    /\ failedAt = "create_model"
    /\ partition.done

----------------------------------------------------------------------------
(* C3 *)

\* C3: after every successful run exactly two distinct files exist: the
\* binary model at the --output path and the sidecar metadata at a different
\* path; the sidecar write never targets the model file's path.
C3_TwoDistinctFiles ==
    pc = "Done" =>
        /\ SidecarPath # args.output
        /\ Cardinality(DOMAIN files) = 2
        /\ ModelFilePresent
        /\ files[args.output].kind = "onnx"
        /\ SidecarPath \in DOMAIN files
        /\ files[SidecarPath].kind = "json"

----------------------------------------------------------------------------
(* C4 *)

\* C4: after every successful run the sidecar metadata holds a feature_names
\* list whose length equals the declared input width of the exported model,
\* also when the input metadata had no feature_names.  Stated for the runs
\* whose sidecar path differs from the model path, so that the overwrite
\* shown under C3 plays no part.
C4_SidecarFeatureNames ==
    (pc = "Done" /\ SidecarPath # args.output) =>
        /\ SidecarPath \in DOMAIN files
        /\ "feature_names" \in DOMAIN files[SidecarPath].data
        /\ Len(files[SidecarPath].data["feature_names"]) = onnx_model.width

----------------------------------------------------------------------------
(* C5 *)

RaggedPayload == PayloadRead /\ payload.parseable /\ Ragged(payload.features)
LabelMismatch ==
    /\ PayloadRead
    /\ payload.parseable
    /\ payload.labels # Len(payload.features)

\* C5 as stated: a payload with rows of unequal length, or with a labels
\* length different from the number of rows, is rejected by
\* load_training_data: the run goes from Start to Failed, train_and_evaluate
\* is never invoked, and the exit status is 1.
C5_ShapeErrorsRaisedByLoader ==
    (RaggedPayload \/ LabelMismatch) =>
        /\ pc = "Failed"
        /\ failedAt = "load_training_data"
        /\ calls["train_and_evaluate"] = 0
        /\ exitStatus = 1

\* C5 amended: rows of unequal length are rejected by load_training_data as
\* stated.  A labels length that differs from the number of rows is not
\* checked by the loader: when the payload loads otherwise, the run reaches
\* Loaded, train_and_evaluate is invoked and its first statement,
\* train_test_split, raises; no partition, model creation or fit occurs and
\* the run ends Failed with exit status 1.
C5_ShapeErrors ==
    /\ RaggedPayload =>
          /\ pc = "Failed"
          /\ failedAt = "load_training_data"
          /\ calls["train_and_evaluate"] = 0
          /\ exitStatus = 1
    /\ (LabelMismatch /\ ~RaggedPayload) =>
          /\ pc \in {"Loaded", "Failed"}
          /\ (pc = "Failed" =>
                /\ exitStatus = 1
                /\ failedAt \in {"load_training_data", "train_test_split"})
          /\ (failedAt = "train_test_split" =>
                calls["train_and_evaluate"] = 1)
          /\ ~partition.done
          /\ calls["create_model"] = 0
          /\ calls["fit"] = 0
          /\ files = EmptyMap

C5_Witness ==
    /\ LabelMismatch
    /\ ~RaggedPayload
    /\ pc = "Failed"
    /\ failedAt = "train_test_split"
    /\ calls["train_and_evaluate"] = 1

----------------------------------------------------------------------------
(* C6 *)

\* the stage of the driver a position belongs to: the statements inside
\* train_and_evaluate run in stage Loaded, those inside export_to_onnx in
\* stage Trained
Stage(p) ==
    IF p \in {"Loaded", "Split", "Created", "Fitted", "Evaluated"} THEN "Loaded"
    ELSE IF p \in {"Trained", "Converted", "ModelWritten"} THEN "Trained"
    ELSE p

StageEdges ==
    { <<"Start", "Loaded">>, <<"Loaded", "Trained">>, <<"Trained", "Exported">>,
      <<"Exported", "Done">>, <<"Start", "Failed">>, <<"Loaded", "Failed">>,
      <<"Trained", "Failed">> }

Stages == {"load_training_data", "train_and_evaluate", "export_to_onnx"}

StageOrder ==
    /\ \A f \in Stages : calls[f] <= 1
    /\ calls["train_and_evaluate"] = 1 =>
          calls["load_training_data"] = 1 /\ X # <<>>
    /\ calls["export_to_onnx"] = 1 =>
          calls["train_and_evaluate"] = 1 /\ GatePassed
    /\ pc = "Done" => \A f \in Stages : calls[f] = 1

\* C6 as stated: every run ends in Done with exit status 0 or in Failed with
\* exit status 1, each stage runs at most once and only after its
\* predecessor, and exit status 0 is produced only after all three stages.
C6_EveryRunDoneOrFailed ==
    /\ StageOrder
    /\ exitStatus # -1 =>
          \/ pc = "Done" /\ exitStatus = 0
          \/ pc = "Failed" /\ exitStatus = 1
    /\ exitStatus = 0 => \A f \in Stages : calls[f] = 1

C6_Inv ==
    /\ StageOrder
    /\ Parsed =>
          /\ pc = "Done" <=> exitStatus = 0
          /\ pc = "Failed" <=> exitStatus = 1
          /\ exitStatus \in {-1, 0, 1}
          /\ exitStatus = 0 => \A f \in Stages : calls[f] = 1
    /\ ~Parsed =>
          /\ \A f \in Stages : calls[f] = 0
          /\ pc = "ArgExit" <=> exitStatus \in {0, 2}
          /\ exitStatus \in {-1, 0, 2}

C6_Step ==
    /\ pc \in {"Done", "Failed", "ArgExit"} => UNCHANGED vars
    /\ Parsed /\ pc' # pc =>
          \/ Stage(pc') = Stage(pc)
          \/ <<Stage(pc), Stage(pc')>> \in StageEdges
    /\ \A f \in Stages : calls'[f] >= calls[f]

\* C6 amended: once argparse has accepted the command line the driver is the
\* loop-free machine Start -> Loaded -> Trained&Evaluated -> Exported -> Done
\* with every stage able to move to Failed: each stage is invoked at most
\* once and only after its predecessor succeeded, Done and Failed are final,
\* Done carries exit status 0 and Failed exit status 1, and status 0 follows
\* all three stages.  A command line argparse rejects ends the process with
\* status 2, and --help with status 0, before Start and with no stage run.
C6_LinearStateMachine == []C6_Inv /\ [][C6_Step]_vars

C6_Witness ==
    /\ pc = "Done"
    /\ exitStatus = 0
    /\ \A f \in Stages : calls[f] = 1

----------------------------------------------------------------------------
(* C7 *)

SidecarWritten ==
    /\ pc \in {"Exported", "Done"}
    /\ SidecarPath \in DOMAIN files
    /\ files[SidecarPath].kind = "json"
    /\ files[SidecarPath].complete

InputMetadata == payload.metadata.map
ExportFields == {"algorithm", "metrics", "trained_at"}

\* C7 as stated: the sidecar record holds every key of the input metadata
\* with its original value, plus algorithm, metrics and trained_at, and the
\* loader's metadata mapping is not changed by the export.
C7_SidecarKeepsEveryInputKey ==
    SidecarWritten =>
        LET side == files[SidecarPath].data
        IN  /\ DOMAIN side = DOMAIN InputMetadata \cup ExportFields
            /\ \A k \in DOMAIN InputMetadata : side[k] = InputMetadata[k]
            /\ side["algorithm"] = args.algorithm
            /\ side["metrics"] = metrics
            /\ side["trained_at"] = "null"
            /\ metadata = InputMetadata

\* C7 amended: the sidecar record holds every key of the input metadata other
\* than algorithm, metrics and trained_at with its original value; those
\* three fields are set by the export (the algorithm used, the metrics
\* record, a null placeholder) and replace an input entry of the same name;
\* the loader's metadata mapping is not changed by the export.
C7_SidecarExtendsInput ==
    SidecarWritten =>
        LET side == files[SidecarPath].data
        IN  /\ DOMAIN side = DOMAIN InputMetadata \cup ExportFields
            /\ \A k \in DOMAIN InputMetadata \ ExportFields :
                    side[k] = InputMetadata[k]
            /\ side["algorithm"] = args.algorithm
            /\ side["metrics"] = metrics
            /\ side["trained_at"] = "null"
            /\ metadata = InputMetadata

C7_Witness ==
    /\ SidecarWritten
    /\ "algorithm" \in DOMAIN InputMetadata
    /\ "task_type" \in DOMAIN InputMetadata
    /\ InputMetadata["algorithm"] # files[SidecarPath].data["algorithm"]
    /\ InputMetadata["task_type"] = files[SidecarPath].data["task_type"]

----------------------------------------------------------------------------
(* C8 *)

\* the choices an error message lists are exactly the set S
Enumerates(choices, S) ==
    /\ Len(choices) = Cardinality(S)
    /\ {choices[i] : i \in DOMAIN choices} = S

\* C8: create_model returns an estimator exactly when the algorithm is in
\* the supported set of the task type ({RandomForest, LogisticRegression,
\* DecisionTree} for classification, {RandomForest, DecisionTree} for
\* regression); otherwise it raises an error whose message lists exactly the
\* valid choices of that task type.
C8_CreateModelSupportedSet ==
    calls["create_model"] = 1 =>
        /\ model.estimator # "none" <=> args.algorithm \in SupportedSet(task_type)
        /\ args.algorithm \notin SupportedSet(task_type) =>
              /\ failedAt = "create_model"
              /\ diagnostic.text = "Unsupported algorithm"
              /\ diagnostic.algorithm = args.algorithm
              /\ Enumerates(diagnostic.choices, SupportedSet(task_type))

C8_Witness ==
    /\ calls["create_model"] = 1
    /\ task_type = "regression"
    /\ args.algorithm = "LogisticRegression"
    /\ failedAt = "create_model"
    /\ diagnostic.choices = <<"RandomForest", "DecisionTree">>

----------------------------------------------------------------------------
(* C9 *)

\* C9: the gate decides after the metrics record exists and on one metric
\* only: train_and_evaluate fails at the gate iff accuracy < threshold
\* (classification) or R2 < threshold (regression), whatever the MSE; a metric
\* equal to the threshold passes; when it passes, the model was fit exactly
\* once, on the training partition only, and the metrics come from
\* predictions on the held-out partition only.
C9_GateAfterMetrics ==
    /\ failedAt = "gate" => MetricsComputed
    /\ GateDecided =>
          /\ MetricsComputed
          /\ failedAt = "gate" <=> MetricBelow
    /\ GatePassed =>
          /\ calls["fit"] = 1
          /\ model.fits = 1
          /\ partition.done
          /\ partition.train # {}
          /\ model.fitOn = partition.train
          /\ evalOn = partition.test
          /\ partition.train \cap partition.test = {}
          /\ partition.train \cup partition.test = 1..X[1]
          /\ calls["predict"] = 1

C9_Witness ==
    /\ GatePassed
    /\ pc = "Trained"
    /\ task_type = "regression"
    /\ metrics["r2"] = args.min_accuracy
    /\ metrics["mse"] = Float(25)
    /\ model.fits = 1

----------------------------------------------------------------------------
(* C10 *)

EarlyFailure ==
    pc = "Failed" /\ failedAt \in {"load_training_data", "train_test_split",
                                   "create_model", "fit", "predict", "gate",
                                   "convert_sklearn"}

SidecarPresent ==
    /\ SidecarPath \in DOMAIN files
    /\ files[SidecarPath].kind = "json"

\* a file appears at the sidecar path only in a step taken after the model
\* file was written completely
SidecarAfterModel ==
    (~SidecarPresent /\ SidecarPresent') =>
        /\ pc = "ModelWritten"
        /\ ModelFilePresent
        /\ files[args.output] = OnnxFile(onnx_model, TRUE)

\* C10 as stated: a run that failed in the load stage, the train/evaluate
\* stage or the graph conversion has written no file; the model file is
\* present after a failed run only when the model write completed and the
\* sidecar write failed; the sidecar never exists before the model file was
\* written.
C10_ModelFileOnlyAfterCompleteWrite ==
    /\ EarlyFailure => files = EmptyMap
    /\ (pc = "Failed" /\ ModelFilePresent) =>
          failedAt \in {"open_metadata", "write_metadata"}
    /\ SidecarPresent => pc \in {"Exported", "Done", "Failed"}

C10_Inv ==
    /\ EarlyFailure => files = EmptyMap
    /\ (pc = "Failed" /\ failedAt = "open_model") => files = EmptyMap
    /\ (pc = "Failed" /\ ModelFilePresent) =>
          \/ /\ failedAt = "write_model"
             /\ files[args.output] = OnnxFile(onnx_model, FALSE)
             /\ DOMAIN files = {args.output}
          \/ failedAt \in {"open_metadata", "write_metadata"}
    /\ (pc = "Failed" /\ failedAt = "open_metadata") =>
          files[args.output] = OnnxFile(onnx_model, TRUE)
    /\ SidecarPresent =>
          /\ pc \in {"Exported", "Done", "Failed"}
          /\ failedAt \in {"none", "write_metadata"}

\* C10 amended: a run that failed in the load stage, the train/evaluate stage
\* or the graph conversion has written no file; the model file is present
\* after a failed run only when the write of the model file itself failed
\* after the file was opened (an incomplete file is left behind) or when the
\* model write completed and the sidecar write failed; the sidecar is only
\* ever written after the model file was written completely.
C10_PartialArtifacts == []C10_Inv /\ [][SidecarAfterModel]_vars

C10_Witness ==
    /\ pc = "Failed"
    /\ failedAt = "write_model"
    /\ ModelFilePresent
    /\ ~files[args.output].complete

====
